---- MODULE Spec2Model ----
(***************************************************************************)
(* Model of log4rs' TOML front end (src/toml/mod.rs): the appender creator *)
(* registry `Creator`, the two built-in creators and the translation       *)
(* routine `parse`.                                                        *)
(*                                                                         *)
(* Option<T> is a sequence of length 0 (None) or 1 (Some).  Result<T, E>   *)
(* is a record with a boolean field `ok`.  A message produced by format!   *)
(* is the sequence of its literal and interpolated pieces.                 *)
(***************************************************************************)
EXTENDS Integers, Sequences, FiniteSets, TLC

VARIABLES registry, lastAdded, pc, doc, refresh_rate, raw_root, raw_appenders,
          raw_loggers, appenders, root, loggers, lookups, invoked,
          validated, ret

vars == <<registry, lastAdded, pc, doc, refresh_rate, raw_root, raw_appenders,
          raw_loggers, appenders, root, loggers, lookups, invoked,
          validated, ret>>

(* ---------------------------- bounds ----------------------------------- *)

\* Largest number of entries (appender fragments plus loggers) of a document.
MaxEntries == 2

(* ------------------------- generic helpers ----------------------------- *)

None == <<>>
Some(x) == <<x>>
unwrap_or(o, d) == IF o = None THEN d ELSE o[1]

Ok(x) == [ok |-> TRUE, val |-> x]
Err(e) == [ok |-> FALSE, err |-> e]

Range(s) == {s[i] : i \in 1..Len(s)}

SeqsUpTo(S, n) == UNION {[1..k -> S] : k \in 0..n}

(* --------------------------- toml values ------------------------------- *)

StringValue(s) == [type |-> "String", val |-> s]
IntegerValue(s) == [type |-> "Integer", val |-> s]

\* config.get(key) on a toml Table
Get(table, key) == IF key \in DOMAIN table THEN Some(table[key]) ELSE None

Keys == {"path", "pattern", "encoding"}

Paths == {"app.log", "/proc/app.log"}
\* paths the process cannot open for writing
UnwritablePaths == {"/proc/app.log"}
Patterns == {"%m", "%{"}
\* pattern strings the layout compiler rejects
MalformedPatterns == {"%{"}

PathValues == {StringValue(p) : p \in Paths} \cup {IntegerValue("123")}
PatternValues == {StringValue(p) : p \in Patterns} \cup {IntegerValue("123")}
OtherValues == {StringValue("utf-8")}

ValuesOf(key) ==
    CASE key = "path" -> PathValues
      [] key = "pattern" -> PatternValues
      [] OTHER -> OtherValues

TablesOver(keys) ==
    UNION {{t \in [D -> PathValues \cup PatternValues \cup OtherValues] :
               \A k \in D : t[k] \in ValuesOf(k)} : D \in SUBSET keys}

\* every config table of the model
Tables == TablesOver(Keys)

(* ------------------------ external collaborators ----------------------- *)

StringError(msg) == [type |-> "StringError", msg |-> msg]

\* PatternLayout::new: compiles a pattern string into a layout
PatternLayout_new(pattern) ==
    IF pattern \in MalformedPatterns
    THEN Err([type |-> "PatternError", msg |-> <<pattern>>])
    ELSE Ok([layout |-> pattern])

\* FileAppender::builder(path), .pattern(layout), .build()
FileAppender_builder(path) == [path |-> path, pattern |-> None]
FileAppenderBuilder_pattern(builder, layout) ==
    [builder EXCEPT !.pattern = Some(layout)]
FileAppenderBuilder_build(builder) ==
    IF builder.path \in UnwritablePaths
    THEN Err([type |-> "IoError", msg |-> <<builder.path>>])
    ELSE Ok([type |-> "FileAppender", path |-> builder.path,
             pattern |-> builder.pattern])

\* ConsoleAppender::builder(), .pattern(layout), .build()
ConsoleAppender_builder == [pattern |-> None]
ConsoleAppenderBuilder_pattern(builder, layout) ==
    [builder EXCEPT !.pattern = Some(layout)]
ConsoleAppenderBuilder_build(builder) ==
    [type |-> "ConsoleAppender", pattern |-> builder.pattern]

(* --------------------------- built-in creators ------------------------- *)

\* The grave accent cannot be written inside a TLA+ string: GraveAccent stands
\* for that one character in the messages below.
GraveAccent == "<grave accent>"
PathRequired == <<GraveAccent, "path", GraveAccent, " is required">>
PathMustBeString == <<GraveAccent, "path", GraveAccent, " must be a string">>
PatternMustBeString ==
    <<GraveAccent, "pattern", GraveAccent, " must be a string">>

\* the File creator taking a `pattern` that is no string for an absent one
FileAppenderCreator_lenient_pattern(config) ==
    LET path == Get(config, "path")
        pattern == Get(config, "pattern") IN
    IF path = None
    THEN Err(StringError(PathRequired))
    ELSE IF path[1].type # "String"
    THEN Err(StringError(PathMustBeString))
    ELSE IF pattern = None \/ pattern[1].type # "String"
    THEN FileAppenderBuilder_build(FileAppender_builder(path[1].val))
    ELSE IF ~PatternLayout_new(pattern[1].val).ok
    THEN Err(PatternLayout_new(pattern[1].val).err)
    ELSE FileAppenderBuilder_build(
             FileAppenderBuilder_pattern(
                 FileAppender_builder(path[1].val),
                 PatternLayout_new(pattern[1].val).val))

\* the File creator refusing a table with a key it does not know
FileAppenderCreator_strict_keys(config) ==
    LET path == Get(config, "path")
        pattern == Get(config, "pattern") IN
    IF DOMAIN config \ {"path", "pattern"} # {}
    THEN Err(StringError(<<"unknown key">>))
    ELSE IF path = None
    THEN Err(StringError(PathRequired))
    ELSE IF path[1].type # "String"
    THEN Err(StringError(PathMustBeString))
    ELSE IF pattern = None
    THEN FileAppenderBuilder_build(FileAppender_builder(path[1].val))
    ELSE IF pattern[1].type # "String"
    THEN Err(StringError(PatternMustBeString))
    ELSE IF ~PatternLayout_new(pattern[1].val).ok
    THEN Err(PatternLayout_new(pattern[1].val).err)
    ELSE FileAppenderBuilder_build(
             FileAppenderBuilder_pattern(
                 FileAppender_builder(path[1].val),
                 PatternLayout_new(pattern[1].val).val))

\* the File creator with the pattern examined before the path
FileAppenderCreator_pattern_first(config) ==
    LET path == Get(config, "path")
        pattern == Get(config, "pattern") IN
    IF pattern # None /\ pattern[1].type # "String"
    THEN Err(StringError(PatternMustBeString))
    ELSE IF pattern # None /\ ~PatternLayout_new(pattern[1].val).ok
    THEN Err(PatternLayout_new(pattern[1].val).err)
    ELSE IF path = None
    THEN Err(StringError(PathRequired))
    ELSE IF path[1].type # "String"
    THEN Err(StringError(PathMustBeString))
    ELSE
      LET appender == FileAppender_builder(path[1].val) IN
      IF pattern = None
      THEN FileAppenderBuilder_build(appender)
      ELSE FileAppenderBuilder_build(
               FileAppenderBuilder_pattern(
                   appender, PatternLayout_new(pattern[1].val).val))

FileAppenderCreator_create_appender(config) ==
    LET path == Get(config, "path") IN
    IF path = None
    THEN Err(StringError(PathRequired))
    ELSE IF path[1].type # "String"
    THEN Err(StringError(PathMustBeString))
    ELSE
      LET appender == FileAppender_builder(path[1].val)
          pattern == Get(config, "pattern") IN
      IF pattern = None
      THEN FileAppenderBuilder_build(appender)
      ELSE IF pattern[1].type # "String"
      THEN Err(StringError(PatternMustBeString))
      ELSE
        LET layout == PatternLayout_new(pattern[1].val) IN
        IF ~layout.ok
        THEN Err(layout.err)
        ELSE FileAppenderBuilder_build(
                 FileAppenderBuilder_pattern(appender, layout.val))

\* the Console creator with the `path` requirement of the File creator
ConsoleAppenderCreator_requiring_path(config) ==
    LET appender == ConsoleAppender_builder
        pattern == Get(config, "pattern") IN
    IF Get(config, "path") = None
    THEN Err(StringError(PathRequired))
    ELSE IF pattern = None
    THEN Ok(ConsoleAppenderBuilder_build(appender))
    ELSE IF pattern[1].type # "String"
    THEN Err(StringError(PatternMustBeString))
    ELSE
      LET layout == PatternLayout_new(pattern[1].val) IN
      IF ~layout.ok
      THEN Err(layout.err)
      ELSE Ok(ConsoleAppenderBuilder_build(
                  ConsoleAppenderBuilder_pattern(appender, layout.val)))

ConsoleAppenderCreator_create_appender(config) ==
    LET appender == ConsoleAppender_builder
        pattern == Get(config, "pattern") IN
    IF pattern = None
    THEN Ok(ConsoleAppenderBuilder_build(appender))
    ELSE IF pattern[1].type # "String"
    THEN Err(StringError(PatternMustBeString))
    ELSE
      LET layout == PatternLayout_new(pattern[1].val) IN
      IF ~layout.ok
      THEN Err(layout.err)
      ELSE Ok(ConsoleAppenderBuilder_build(
                  ConsoleAppenderBuilder_pattern(appender, layout.val)))

\* the File creator opening the file before it reads `pattern`
FileAppenderCreator_steps_build_first(config) ==
    LET path == Get(config, "path")
        pattern == Get(config, "pattern") IN
    IF path = None \/ path[1].type # "String"
    THEN <<"path">>
    ELSE IF pattern = None
    THEN <<"path", "builder", "build", "pattern">>
    ELSE IF pattern[1].type # "String"
    THEN <<"path", "builder", "build", "pattern">>
    ELSE <<"path", "builder", "build", "pattern", "compile">>

\* the statements of FileAppenderCreator::create_appender a call executes, in
\* order: the match on `path` (143-147), the builder (148), the match on
\* `pattern` (149-155), the compilation of the pattern (151) and build (157)
FileAppenderCreator_steps(config) ==
    LET path == Get(config, "path")
        pattern == Get(config, "pattern") IN
    IF path = None \/ path[1].type # "String"
    THEN <<"path">>
    ELSE IF pattern = None
    THEN <<"path", "builder", "pattern", "build">>
    ELSE IF pattern[1].type # "String"
    THEN <<"path", "builder", "pattern">>
    ELSE IF ~PatternLayout_new(pattern[1].val).ok
    THEN <<"path", "builder", "pattern", "compile">>
    ELSE <<"path", "builder", "pattern", "compile", "build">>

\* a creator supplied by the embedding application: accepts every table
NullAppenderCreator_create_appender(config) == Ok([type |-> "NullAppender"])

BuiltinCreators == {"FileAppenderCreator", "ConsoleAppenderCreator"}
UserCreators == {"NullAppenderCreator"}
Creators == BuiltinCreators \cup UserCreators

\* dynamic dispatch of CreateAppender::create_appender on a boxed creator
CreateAppender_create_appender(creator, config) ==
    CASE creator = "FileAppenderCreator" ->
             FileAppenderCreator_create_appender(config)
      [] creator = "ConsoleAppenderCreator" ->
             ConsoleAppenderCreator_create_appender(config)
      [] OTHER -> NullAppenderCreator_create_appender(config)

\* the statements of the dispatched creator, recorded for the File creator
CreateAppender_steps(creator, config) ==
    IF creator = "FileAppenderCreator"
    THEN FileAppenderCreator_steps(config)
    ELSE <<>>

(* ------------------------------ registry -------------------------------- *)

\* HashMap<String, Box<CreateAppender>> as a set of <<key, value>> entries
HashMap_new == {}
\* an insert that keeps the entry already stored under the key
HashMap_insert_if_absent(map, key, value) ==
    IF \E e \in map : e[1] = key THEN map ELSE map \cup {<<key, value>>}

HashMap_insert(map, key, value) ==
    {e \in map : e[1] # key} \cup {<<key, value>>}
HashMap_get(map, key) ==
    IF \E e \in map : e[1] = key
    THEN Some((CHOOSE e \in map : e[1] = key)[2])
    ELSE None

Creator_new == HashMap_new

\* add_appender followed by a fresh registration of the built-ins
add_appender_restoring_builtins(self, kind, creator) ==
    HashMap_insert(
        HashMap_insert(HashMap_insert(self, kind, creator),
                       "file", "FileAppenderCreator"),
        "console", "ConsoleAppenderCreator")

add_appender(self, kind, creator) == HashMap_insert(self, kind, creator)

Creator_default ==
    add_appender(add_appender(Creator_new, "file", "FileAppenderCreator"),
                 "console", "ConsoleAppenderCreator")

\* the creator Creator::create_appender dispatches to, if any
LookupCreator(self, kind) == HashMap_get(self, kind)

\* create_appender with a message that leaves the kind out
create_appender_anonymous(self, kind, config) ==
    LET creator == LookupCreator(self, kind) IN
    IF creator # None
    THEN CreateAppender_create_appender(creator[1], config)
    ELSE Err(StringError(<<"No creator registered for appender kind">>))

create_appender(self, kind, config) ==
    LET creator == LookupCreator(self, kind) IN
    IF creator # None
    THEN CreateAppender_create_appender(creator[1], config)
    ELSE Err(StringError(<<"No creator registered for appender kind \"",
                           kind, "\"">>))

(* ------------------------------ documents ------------------------------- *)

Kinds == {"file", "console", "null"}
AppenderNames == {"a1", "a2"}
LoggerNames == {"app"}
RootLevels == {"Info"}
LoggerLevels == {"Warn"}
Durations == {30}

\* config tables written in documents
DocTables ==
    {t \in TablesOver({"path", "pattern"}) :
        /\ "path" \in DOMAIN t => t["path"] = StringValue("app.log")
        /\ "pattern" \in DOMAIN t => t["pattern"] # StringValue("%m")}

\* raw::Appender with its name: one entry of the document's appenders table
RawAppenders ==
    [name : AppenderNames, kind : Kinds, config : DocTables]

\* raw::Root
RawRoots ==
    [level : RootLevels,
     appenders : {None} \cup {Some(s) : s \in SeqsUpTo({"a1"}, 1)}]

\* raw::Logger
RawLoggers ==
    [name : LoggerNames, level : LoggerLevels,
     appenders : {None, Some(<<"a1">>)},
     additive : {None} \cup {Some(b) : b \in BOOLEAN}]

\* the appenders table of a document maps each name to one fragment: the
\* entries, in the order the table yields them, have distinct names
AppenderTables(n) ==
    {s \in [1..n -> RawAppenders] :
        \A i, j \in 1..n : i # j => s[i].name # s[j].name}

\* raw::Config: what extraction yields for a well-formed document
RawConfigs ==
    UNION {[refresh_rate : {None} \cup {Some(d) : d \in Durations},
            root : {None} \cup {Some(r) : r \in RawRoots},
            appenders : AppenderTables(na),
            loggers : [1..nl -> RawLoggers]] :
           <<na, nl>> \in {e \in (0..MaxEntries) \X (0..MaxEntries) :
                              e[1] + e[2] <= MaxEntries}}

\* lists of problems the extractor reports for an ill-formed document
ParseErrors ==
    {<<"invalid toml">>, <<"root must be a table", "unknown level">>}

\* A document is modelled by what extraction makes of it.
Documents ==
    {[errors |-> <<>>, raw |-> Some(c)] : c \in RawConfigs}
    \cup {[errors |-> e, raw |-> None] : e \in ParseErrors}

\* raw::parse: the extractor
raw_parse(config) ==
    IF config.errors # <<>> THEN Err(config.errors) ELSE Ok(config.raw[1])

(* ------------------------------ config ---------------------------------- *)

\* config::Appender::new, config::Root::new, config::Logger::new
Appender_new(name, appender) == [name |-> name, appender |-> appender]
Root_new(level) == [level |-> level, appenders |-> <<>>]
Logger_new(name, level) ==
    [name |-> name, level |-> level, appenders |-> <<>>, additive |-> TRUE]

\* config::Config::new: the validator
Config_new(apps, rt, lgs) ==
    LET names == {apps[i].name : i \in 1..Len(apps)} IN
    IF \E i, j \in 1..Len(apps) : i # j /\ apps[i].name = apps[j].name
    THEN Err([type |-> "DuplicateAppenderName"])
    ELSE IF \E i \in 1..Len(rt.appenders) : rt.appenders[i] \notin names
    THEN Err([type |-> "NonexistentAppender"])
    ELSE IF \E i, j \in 1..Len(lgs) : i # j /\ lgs[i].name = lgs[j].name
    THEN Err([type |-> "DuplicateLoggerName"])
    ELSE IF \E i \in 1..Len(lgs) :
              \E k \in 1..Len(lgs[i].appenders) :
                  lgs[i].appenders[k] \notin names
    THEN Err([type |-> "NonexistentAppender"])
    ELSE Ok([appenders |-> apps, root |-> rt, loggers |-> lgs])

(* ------------------------------- errors --------------------------------- *)

\* enum Error
\* Error::Parse keeping only the first message
Error_Parse_first(errs) == [kind |-> "Parse", payload |-> <<errs[1]>>]

Error_Parse(errs) == [kind |-> "Parse", payload |-> errs]
\* Error::Creation with the failure replaced by a fixed message
Error_Creation_opaque(err) ==
    [kind |-> "Creation",
     payload |-> [type |-> "StringError",
                  msg |-> <<"appender creation failed">>]]

Error_Creation(err) == [kind |-> "Creation", payload |-> err]
\* the validator's error wrapped in the wrong variant
Error_Config_as_creation(err) == [kind |-> "Creation", payload |-> err]

Error_Config(err) == [kind |-> "Config", payload |-> err]

\* TomlConfig built without the refresh interval
TomlConfig_without_refresh(refresh, config) ==
    [refresh_rate |-> None, config |-> config]

TomlConfig(refresh, config) == [refresh_rate |-> refresh, config |-> config]

(* ------------------------------- state ---------------------------------- *)

\* build_root without the extend of the root's appender list
build_root_without_extend(raw) ==
    IF raw # None THEN Root_new(raw[1].level) ELSE Root_new("Debug")

\* parse, lines 88-97: the root built from the optional raw root
build_root(raw) ==
    IF raw # None
    THEN LET r == Root_new(raw[1].level) IN
         IF raw[1].appenders # None
         THEN [r EXCEPT !.appenders = r.appenders \o raw[1].appenders[1]]
         ELSE r
    ELSE Root_new("Debug")

\* build_logger with the defaults of Logger::new left in place
build_logger_keeping_defaults(raw) ==
    LET logger == Logger_new(raw.name, raw.level) IN
    [logger EXCEPT !.appenders = unwrap_or(raw.appenders, <<>>)]

\* parse, lines 101-104: the logger built from one raw logger
build_logger(raw) ==
    LET logger == Logger_new(raw.name, raw.level) IN
    [logger EXCEPT !.appenders = unwrap_or(raw.appenders, <<>>),
                   !.additive = unwrap_or(raw.additive, TRUE)]

\* push_appender with the list overwritten instead of extended
push_appender_overwriting(list, name, appender) ==
    <<Appender_new(name, appender)>>

\* parse, line 85: appenders.push(config::Appender::new(name, appender))
push_appender(list, name, appender) ==
    Append(list, Appender_new(name, appender))

\* what the locals of parse hold outside a call
Locals ==
    /\ doc = None
    /\ refresh_rate = None
    /\ raw_root = None
    /\ raw_appenders = <<>>
    /\ raw_loggers = <<>>
    /\ appenders = <<>>
    /\ root = None
    /\ loggers = <<>>
    /\ lookups = <<>>
    /\ invoked = <<>>
    /\ validated = <<>>
    /\ ret = None

Init ==
    /\ registry \in {Creator_new, Creator_default}
    /\ lastAdded = registry
    /\ pc = "idle"
    /\ Locals

\* kinds and creators the application registers
RegisterKinds == {"console", "null"}
RegisterCreators == {"ConsoleAppenderCreator", "NullAppenderCreator"}

\* Creator::add_appender, called between translations
AddAppender(kind, creator) ==
    /\ pc = "idle"
    /\ registry' = add_appender(registry, kind, creator)
    /\ lastAdded' = {e \in lastAdded : e[1] # kind} \cup {<<kind, creator>>}
    /\ UNCHANGED <<pc, doc, refresh_rate, raw_root, raw_appenders, raw_loggers,
                   appenders, root, loggers, lookups, invoked, validated, ret>>

\* the creator invocations a Creator::create_appender call makes
Invocations(self, kind, config) ==
    LET creator == LookupCreator(self, kind) IN
    IF creator # None
    THEN <<[creator |-> creator[1], kind |-> kind, config |-> config,
            steps |-> CreateAppender_steps(creator[1], config)]>>
    ELSE <<>>

\* create_appender storing a creator under a kind it did not find
CallCreateAppender_registering(kind, config) ==
    /\ pc = "idle"
    /\ lookups' = <<[kind |-> kind, config |-> config]>>
    /\ invoked' = Invocations(registry, kind, config)
    /\ ret' = Some(create_appender(registry, kind, config))
    /\ pc' = "created"
    /\ registry' = IF LookupCreator(registry, kind) = None
                   THEN HashMap_insert(registry, kind, "NullAppenderCreator")
                   ELSE registry
    /\ UNCHANGED <<lastAdded, doc, refresh_rate, raw_root,
                   raw_appenders, raw_loggers, appenders, root, loggers,
                   validated>>

\* Creator::create_appender, called by the application itself
CallCreateAppender(kind, config) ==
    /\ pc = "idle"
    /\ lookups' = <<[kind |-> kind, config |-> config]>>
    /\ invoked' = Invocations(registry, kind, config)
    /\ ret' = Some(create_appender(registry, kind, config))
    /\ pc' = "created"
    /\ UNCHANGED <<registry, lastAdded, doc, refresh_rate, raw_root,
                   raw_appenders, raw_loggers, appenders, root, loggers,
                   validated>>

\* parse, lines 67-79: extraction and destructuring
ParseExtract(config) ==
    /\ pc = "idle"
    /\ doc' = Some(config)
    /\ LET r == raw_parse(config) IN
       IF ~r.ok
       THEN /\ ret' = Some(Err(Error_Parse(r.err)))
            /\ pc' = "done"
            /\ UNCHANGED <<refresh_rate, raw_root, raw_appenders, raw_loggers>>
       ELSE /\ refresh_rate' = r.val.refresh_rate
            /\ raw_root' = r.val.root
            /\ raw_appenders' = r.val.appenders
            /\ raw_loggers' = r.val.loggers
            /\ pc' = "appenders"
            /\ UNCHANGED ret
    /\ UNCHANGED <<registry, lastAdded, appenders, root, loggers, lookups,
                   invoked, validated>>

\* the appender loop skipping a fragment whose creation fails
ResolveAppender_skipping ==
    /\ pc = "appenders"
    /\ raw_appenders # <<>>
    /\ LET name == Head(raw_appenders).name
           appender == Head(raw_appenders)
           r == create_appender(registry, appender.kind, appender.config) IN
       /\ lookups' = Append(lookups, [kind |-> appender.kind,
                                      config |-> appender.config])
       /\ invoked' = invoked \o
                     Invocations(registry, appender.kind, appender.config)
       /\ appenders' = IF r.ok THEN push_appender(appenders, name, r.val)
                       ELSE appenders
       /\ raw_appenders' = Tail(raw_appenders)
    /\ UNCHANGED <<registry, lastAdded, pc, ret, doc, refresh_rate, raw_root,
                   raw_loggers, root, loggers, validated>>

\* parse, lines 80-86: one iteration of the appender loop
ResolveAppender ==
    /\ pc = "appenders"
    /\ raw_appenders # <<>>
    /\ LET name == Head(raw_appenders).name
           appender == Head(raw_appenders)
           r == create_appender(registry, appender.kind, appender.config) IN
       /\ lookups' = Append(lookups, [kind |-> appender.kind,
                                      config |-> appender.config])
       /\ invoked' = invoked \o
                     Invocations(registry, appender.kind, appender.config)
       /\ IF r.ok
          THEN /\ appenders' = push_appender(appenders, name, r.val)
               /\ raw_appenders' = Tail(raw_appenders)
               /\ UNCHANGED <<pc, ret>>
          ELSE /\ ret' = Some(Err(Error_Creation(r.err)))
               /\ pc' = "done"
               /\ UNCHANGED <<appenders, raw_appenders>>
    /\ UNCHANGED <<registry, lastAdded, doc, refresh_rate, raw_root,
                   raw_loggers, root, loggers, validated>>

\* parse, lines 88-99: the root
BuildRoot ==
    /\ pc = "appenders"
    /\ raw_appenders = <<>>
    /\ root' = Some(build_root(raw_root))
    /\ pc' = "loggers"
    /\ UNCHANGED <<registry, lastAdded, doc, refresh_rate, raw_root,
                   raw_appenders, raw_loggers, appenders, loggers, lookups,
                   invoked, validated, ret>>

\* parse, lines 100-106: one iteration of the logger loop
AssembleLogger ==
    /\ pc = "loggers"
    /\ raw_loggers # <<>>
    /\ loggers' = Append(loggers, build_logger(Head(raw_loggers)))
    /\ raw_loggers' = Tail(raw_loggers)
    /\ UNCHANGED <<registry, lastAdded, pc, doc, refresh_rate, raw_root,
                   raw_appenders, appenders, root, lookups, invoked,
                   validated, ret>>

\* parse, lines 108-115: validation and the result
Validate ==
    /\ pc = "loggers"
    /\ raw_loggers = <<>>
    /\ validated' = Append(validated, [appenders |-> appenders,
                                       root |-> root[1],
                                       loggers |-> loggers])
    /\ LET r == Config_new(appenders, root[1], loggers) IN
       ret' = Some(IF r.ok
                   THEN Ok(TomlConfig(refresh_rate, r.val))
                   ELSE Err(Error_Config(r.err)))
    /\ pc' = "done"
    /\ UNCHANGED <<registry, lastAdded, doc, refresh_rate, raw_root,
                   raw_appenders, raw_loggers, appenders, root, loggers,
                   lookups, invoked>>

\* the call returns; its locals are dropped
Return ==
    /\ pc \in {"done", "created"}
    /\ pc' = "idle"
    /\ doc' = None
    /\ refresh_rate' = None
    /\ raw_root' = None
    /\ raw_appenders' = <<>>
    /\ raw_loggers' = <<>>
    /\ appenders' = <<>>
    /\ root' = None
    /\ loggers' = <<>>
    /\ lookups' = <<>>
    /\ invoked' = <<>>
    /\ validated' = <<>>
    /\ ret' = None
    /\ UNCHANGED <<registry, lastAdded>>

\* the operations of the module; the inputs of a call are drawn once the call
\* is possible, that is when no other call is running
Next ==
    \/ /\ pc = "idle"
       /\ \E kind \in RegisterKinds, creator \in RegisterCreators :
              AddAppender(kind, creator)
    \/ /\ pc = "idle"
       /\ \E kind \in Kinds, config \in Tables :
              CallCreateAppender(kind, config)
    \/ /\ pc = "idle"
       /\ \E config \in Documents : ParseExtract(config)
    \/ ResolveAppender
    \/ BuildRoot
    \/ AssembleLogger
    \/ Validate
    \/ Return

Spec == Init /\ [][Next]_vars

(* ------------------------- shorthands of the claims --------------------- *)

\* a translation is running or has just ended, and extraction succeeded
Extracted == doc # None /\ doc[1].errors = <<>>
\* the raw configuration of the document being translated
Raw == doc[1].raw[1]
RegisteredKinds == {e[1] : e \in registry}
\* the outcome of the i-th creator invocation of the current call
Outcome(i) ==
    IF pc = "created" THEN ret[1]
    ELSE IF i <= Len(appenders) THEN Ok(appenders[i].appender)
    ELSE IF ret # None /\ ~ret[1].ok /\ ret[1].err.kind = "Creation"
    THEN Err(ret[1].err.payload)
    ELSE Err([type |-> "Pending", msg |-> <<>>])
\* every fragment of raw configuration d resolves to a creator that accepts it
AllCreated(d) ==
    \A i \in 1..Len(d.appenders) :
        /\ d.appenders[i].kind \in RegisteredKinds
        /\ CreateAppender_create_appender(
               HashMap_get(registry, d.appenders[i].kind)[1],
               d.appenders[i].config).ok

(* -------------------------------- claims -------------------------------- *)

\* C1: when a document extracts and each of its N fragments has a registered
\* kind whose creator accepts it, the validator is handed exactly N appenders,
\* the i-th under the i-th declared name and built by the creator registered
\* for the i-th kind from the i-th config.
C1_ExactlyTheDeclaredAppenders ==
    (pc = "done" /\ Extracted /\ AllCreated(Raw)) =>
        /\ Len(validated) = 1
        /\ Len(validated[1].appenders) = Len(Raw.appenders)
        /\ Len(invoked) = Len(Raw.appenders)
        /\ \A i \in 1..Len(Raw.appenders) :
              /\ validated[1].appenders[i].name = Raw.appenders[i].name
              /\ <<Raw.appenders[i].kind, invoked[i].creator>> \in registry
              /\ invoked[i].config = Raw.appenders[i].config
              /\ validated[1].appenders[i].appender =
                     CreateAppender_create_appender(
                         invoked[i].creator, Raw.appenders[i].config).val

C1_Witness ==
    /\ pc = "done" /\ Extracted /\ AllCreated(Raw)
    /\ Len(Raw.appenders) = 2
    /\ Len(validated) = 1
    /\ validated[1].appenders[1].appender.type = "FileAppender"
    /\ validated[1].appenders[2].appender.type = "NullAppender"

\* C2: a lookup of a kind that is no key of the registry invokes no creator
\* and fails with a message that contains the kind; in a translation it is the
\* last lookup and the call returns Error::Creation with that message.
C2_UnregisteredKind ==
    \A i \in 1..Len(lookups) :
        lookups[i].kind \notin RegisteredKinds =>
            /\ i = Len(lookups)
            /\ Len(invoked) = Len(lookups) - 1
            /\ pc \in {"created", "done"}
            /\ ret # None /\ ~ret[1].ok
            /\ LET e == IF pc = "created" THEN ret[1].err
                        ELSE ret[1].err.payload IN
               /\ pc = "done" => ret[1].err.kind = "Creation"
               /\ e.type = "StringError"
               /\ lookups[i].kind \in Range(e.msg)

C2_Witness ==
    /\ pc = "done" /\ Extracted
    /\ Len(lookups) = 2
    /\ lookups[2].kind = "null" /\ "null" \notin RegisteredKinds
    /\ ret[1].err.kind = "Creation"
    /\ "null" \in Range(ret[1].err.payload.msg)

\* C3: the File creator answers a table without `path` with the message
\* "`path` is required" and a table whose `path` is no string with "`path`
\* must be a string", whatever the other keys of the table are.
C3_PathCheckedFirst ==
    \A i \in 1..Len(invoked) :
        (invoked[i].creator = "FileAppenderCreator"
         /\ Get(invoked[i].config, "path") \notin
                {Some(StringValue(p)) : p \in Paths}) =>
            /\ i = Len(invoked)
            /\ Outcome(i) =
                 Err(StringError(
                     IF "path" \in DOMAIN invoked[i].config
                     THEN <<GraveAccent, "path", GraveAccent,
                            " must be a string">>
                     ELSE <<GraveAccent, "path", GraveAccent,
                            " is required">>))

C3_Witness ==
    /\ pc = "created"
    /\ invoked # <<>> /\ invoked[1].creator = "FileAppenderCreator"
    /\ "path" \notin DOMAIN invoked[1].config
    /\ Get(invoked[1].config, "pattern") = Some(IntegerValue("123"))
    /\ "encoding" \in DOMAIN invoked[1].config
    /\ ret[1] = Err(StringError(PathRequired))

\* C4: the loggers assembled so far are the raw loggers consumed so far, in
\* order, each with its name and level, additive = true when `additive` is
\* omitted and the given value otherwise, and no appender reference when
\* `appenders` is omitted and the given list otherwise; the validator is
\* handed one logger per raw logger.
C4_LoggerDefaults ==
    Extracted =>
        /\ Len(loggers) + Len(raw_loggers) = Len(Raw.loggers)
        /\ \A i \in 1..Len(loggers) :
              LET raw == Raw.loggers[i] IN
              /\ loggers[i].name = raw.name
              /\ loggers[i].level = raw.level
              /\ loggers[i].additive =
                     (IF raw.additive = None THEN TRUE ELSE raw.additive[1])
              /\ loggers[i].appenders =
                     (IF raw.appenders = None THEN <<>>
                      ELSE raw.appenders[1])
        /\ validated # <<>> =>
              /\ validated[1].loggers = loggers
              /\ Len(loggers) = Len(Raw.loggers)

C4_Witness ==
    /\ Extracted /\ validated # <<>>
    /\ Len(Raw.loggers) = 2
    /\ Raw.loggers[1].additive = Some(FALSE)
    /\ Raw.loggers[1].appenders = Some(<<"a1">>)
    /\ Raw.loggers[2].additive = None
    /\ Raw.loggers[2].appenders = None
    /\ validated[1].loggers[2].additive = TRUE
    /\ validated[1].loggers[2].appenders = <<>>
    /\ validated[1].loggers[1].additive = FALSE

\* C5: the registry holds at most one creator per kind, namely the one of the
\* most recent add_appender call for the kind, and every creator invocation
\* is of the creator most recently registered for the looked-up kind.
C5_LastRegistrationWins ==
    /\ \A e1, e2 \in registry : e1[1] = e2[1] => e1 = e2
    /\ registry = lastAdded
    /\ \A i \in 1..Len(invoked) :
          <<invoked[i].kind, invoked[i].creator>> \in lastAdded

C5_Witness ==
    /\ pc = "done" /\ Extracted
    /\ <<"console", "NullAppenderCreator">> \in lastAdded
    /\ invoked # <<>>
    /\ invoked[1].kind = "console"
    /\ invoked[1].creator = "NullAppenderCreator"
    /\ appenders[1].appender.type = "NullAppender"

\* C6: when extraction reports problems the call returns Error::Parse with
\* the extractor's whole list, in order, and has looked up no kind, invoked no
\* creator and not called the validator.
C6_ParseErrorShortCircuits ==
    (doc # None /\ doc[1].errors # <<>>) =>
        /\ pc = "done"
        /\ ret # None /\ ~ret[1].ok
        /\ ret[1].err.kind = "Parse"
        /\ ret[1].err.payload = doc[1].errors
        /\ lookups = <<>> /\ invoked = <<>> /\ validated = <<>>
        /\ appenders = <<>> /\ root = None /\ loggers = <<>>

C6_Witness ==
    /\ doc # None /\ Len(doc[1].errors) = 2
    /\ pc = "done"
    /\ ret[1].err.kind = "Parse" /\ Len(ret[1].err.payload) = 2

\* fragment a of the current document resolves to a constructed appender
Resolves(a) == create_appender(registry, a.kind, a.config).ok

\* C7: the registry is asked for the fragments one at a time in the order of
\* the document; every fragment before the last one asked for was created;
\* the call ends with Error::Creation exactly when the last one asked for
\* failed, the error wraps that failure, later fragments were never asked
\* for and the validator was not called.
C7_FirstFailureStops ==
    Extracted =>
        LET n == Len(lookups) IN
        /\ n <= Len(Raw.appenders)
        /\ \A i \in 1..n :
              /\ lookups[i].kind = Raw.appenders[i].kind
              /\ lookups[i].config = Raw.appenders[i].config
        /\ \A i \in 1..(n - 1) : Resolves(Raw.appenders[i])
        /\ Len(appenders) \in {n, n - 1}
        /\ (n >= 1 /\ ~Resolves(Raw.appenders[n])) =>
              /\ pc = "done"
              /\ ret = Some(Err([kind |-> "Creation",
                                 payload |->
                                   create_appender(registry,
                                       Raw.appenders[n].kind,
                                       Raw.appenders[n].config).err]))
              /\ validated = <<>>
              /\ Len(appenders) = n - 1
        /\ (ret # None /\ ~ret[1].ok /\ ret[1].err.kind = "Creation") =>
              (n >= 1 /\ ~Resolves(Raw.appenders[n]))
        /\ (pc = "done"
            /\ \E i \in 1..Len(Raw.appenders) : ~Resolves(Raw.appenders[i])) =>
              (ret # None /\ ~ret[1].ok /\ ret[1].err.kind = "Creation")

C7_Witness ==
    /\ Extracted /\ pc = "done"
    /\ Len(Raw.appenders) = 2
    /\ ~Resolves(Raw.appenders[1])
    /\ Resolves(Raw.appenders[2])
    /\ Len(lookups) = 1
    /\ ret[1].err.kind = "Creation"

\* a root or logger of raw configuration d names an appender d does not declare
Dangling(d) ==
    LET declared == {d.appenders[i].name : i \in 1..Len(d.appenders)} IN
    \/ /\ d.root # None
       /\ d.root[1].appenders # None
       /\ \E k \in 1..Len(d.root[1].appenders[1]) :
             d.root[1].appenders[1][k] \notin declared
    \/ \E i \in 1..Len(d.loggers) :
          /\ d.loggers[i].appenders # None
          /\ \E k \in 1..Len(d.loggers[i].appenders[1]) :
                d.loggers[i].appenders[1][k] \notin declared

\* the result the current call returned
Returned(kind) == ret # None /\ ~ret[1].ok /\ ret[1].err.kind = kind

\* the validator is called at most once, after extraction succeeded and every
\* fragment was created, and its verdict is the result of the call
ValidatorDecides ==
    /\ Len(validated) <= 1
    /\ validated # <<>> =>
          /\ Extracted
          /\ raw_appenders = <<>>
          /\ Len(appenders) = Len(Raw.appenders)
          /\ Len(invoked) = Len(Raw.appenders)
          /\ validated[1].appenders = appenders
          /\ pc = "done"
          /\ LET verdict == Config_new(validated[1].appenders,
                                       validated[1].root,
                                       validated[1].loggers) IN
             IF verdict.ok
             THEN /\ ret[1].ok
                  /\ ret[1].val.config = verdict.val
             ELSE /\ Returned("Config")
                  /\ ret[1].err.payload = verdict.err
    /\ (pc = "done" /\ (Returned("Config") \/ ret[1].ok)) => validated # <<>>

\* C8 as stated: the validator decides, and a document with a dangling
\* reference yields Error::Config.
C8_DanglingAlwaysConfig ==
    /\ ValidatorDecides
    /\ (pc = "done" /\ Extracted /\ Dangling(Raw)) => Returned("Config")

\* C8 amended: the validator decides, and a document with a dangling reference
\* yields Error::Config when every fragment was created, and Error::Creation
\* only when one of its fragments failed.
C8_DanglingConfigOnceCreated ==
    /\ ValidatorDecides
    /\ (pc = "done" /\ Extracted /\ Dangling(Raw)) =>
          /\ AllCreated(Raw) => Returned("Config")
          /\ Returned("Creation") =>
                \E i \in 1..Len(Raw.appenders) : ~Resolves(Raw.appenders[i])
          /\ ~ret[1].ok

C8_Witness ==
    /\ pc = "done" /\ Extracted /\ Dangling(Raw)
    /\ Len(Raw.appenders) = 1 /\ Raw.appenders[1].name = "a2"
    /\ AllCreated(Raw)
    /\ Len(validated) = 1
    /\ Returned("Config")
    /\ ret[1].err.payload.type = "NonexistentAppender"

\* C9: the root assembled for a document without root has level Debug and no
\* appender reference; for a document with a root it has the root's level and
\* the root's appender names, none when `appenders` is omitted.
C9_RootDefaults ==
    root # None =>
        /\ Extracted
        /\ Raw.root = None =>
              root[1] = [level |-> "Debug", appenders |-> <<>>]
        /\ Raw.root # None =>
              /\ root[1].level = Raw.root[1].level
              /\ root[1].appenders =
                     (IF Raw.root[1].appenders = None THEN <<>>
                      ELSE Raw.root[1].appenders[1])
        /\ validated # <<>> => validated[1].root = root[1]

C9_Witness ==
    /\ Extracted /\ validated # <<>>
    /\ Raw.root # None
    /\ Raw.root[1].appenders = Some(<<"a1">>)
    /\ validated[1].root = [level |-> "Info", appenders |-> <<"a1">>]
    /\ ret[1].ok

\* C10 as stated: the Console creator fails only when the pattern does not
\* compile.
C10_OnlyCompilationFails ==
    \A i \in 1..Len(invoked) :
        (invoked[i].creator = "ConsoleAppenderCreator" /\ ~Outcome(i).ok) =>
            /\ Get(invoked[i].config, "pattern") \in
                   {Some(StringValue(p)) : p \in Patterns}
            /\ Outcome(i).err.type = "PatternError"

\* C10 amended: the Console creator requires no key and fails exactly when
\* `pattern` is present and is either no string, with the message "`pattern`
\* must be a string", or a string that does not compile, with the compiler's
\* error.
C10_OnlyPatternFails ==
    \A i \in 1..Len(invoked) :
        invoked[i].creator = "ConsoleAppenderCreator" =>
            LET pattern == Get(invoked[i].config, "pattern") IN
            IF pattern = None
            THEN Outcome(i) =
                     Ok([type |-> "ConsoleAppender", pattern |-> None])
            ELSE IF pattern[1].type # "String"
            THEN Outcome(i) =
                     Err(StringError(<<GraveAccent, "pattern", GraveAccent,
                                       " must be a string">>))
            ELSE IF pattern[1].val \in MalformedPatterns
            THEN /\ ~Outcome(i).ok
                 /\ Outcome(i).err.type = "PatternError"
            ELSE /\ Outcome(i).ok
                 /\ Outcome(i).val.type = "ConsoleAppender"

C10_Witness ==
    /\ pc = "created"
    /\ invoked # <<>> /\ invoked[1].creator = "ConsoleAppenderCreator"
    /\ Get(invoked[1].config, "pattern") = Some(IntegerValue("123"))
    /\ "path" \notin DOMAIN invoked[1].config
    /\ ret[1] = Err(StringError(PatternMustBeString))

\* the i-th fragment of the document is handled by the File creator and its
\* `pattern` is no string
MistypedFilePattern(i) ==
    /\ <<Raw.appenders[i].kind, "FileAppenderCreator">> \in registry
    /\ "pattern" \in DOMAIN Raw.appenders[i].config
    /\ Raw.appenders[i].config["pattern"].type # "String"

\* C11 as stated: a document with a file fragment whose `pattern` is no string
\* yields Error::Creation with the message "`pattern` must be a string" and no
\* Translated Config.
C11_MistypedPatternMessage ==
    (pc = "done" /\ Extracted
     /\ \E i \in 1..Len(Raw.appenders) : MistypedFilePattern(i)) =>
        /\ Returned("Creation")
        /\ ret[1].err.payload =
               StringError(<<GraveAccent, "pattern", GraveAccent,
                             " must be a string">>)
        /\ validated = <<>>

\* C11 amended: such a document yields Error::Creation and no Translated
\* Config; the message is "`pattern` must be a string" when the fragment has
\* a string `path` and every fragment before it was created, and then the
\* fragments before it were constructed and none after it was asked for.
C11_MistypedPatternAfterPath ==
    (pc = "done" /\ Extracted) =>
        \A i \in 1..Len(Raw.appenders) :
            MistypedFilePattern(i) =>
                /\ Returned("Creation")
                /\ validated = <<>>
                /\ ("path" \in DOMAIN Raw.appenders[i].config
                    /\ Raw.appenders[i].config["path"].type = "String"
                    /\ \A j \in 1..(i - 1) : Resolves(Raw.appenders[j])) =>
                      /\ ret[1].err.payload =
                             StringError(<<GraveAccent, "pattern",
                                           GraveAccent, " must be a string">>)
                      /\ Len(lookups) = i
                      /\ Len(appenders) = i - 1

C11_Witness ==
    /\ pc = "done" /\ Extracted
    /\ Len(Raw.appenders) = 2
    /\ Raw.appenders[1].kind = "console" /\ Resolves(Raw.appenders[1])
    /\ MistypedFilePattern(2)
    /\ "path" \in DOMAIN Raw.appenders[2].config
    /\ Len(appenders) = 1
    /\ Returned("Creation")
    /\ ret[1].err.payload = StringError(PatternMustBeString)

\* the keys a built-in creator reads
Recognized(creator) ==
    IF creator = "FileAppenderCreator" THEN {"path", "pattern"}
    ELSE {"pattern"}
Restrict(table, keys) == [k \in DOMAIN table \cap keys |-> table[k]]

\* C12: the outcome of a built-in creator on a table is its outcome on the
\* table cut down to the keys it reads (`path` and `pattern` for File,
\* `pattern` for Console): two tables that agree on those keys have the same
\* outcome, and no other key causes an error.
C12_UnrecognizedKeysIgnored ==
    \A i \in 1..Len(invoked) :
        invoked[i].creator \in BuiltinCreators =>
            Outcome(i) =
                CreateAppender_create_appender(
                    invoked[i].creator,
                    Restrict(invoked[i].config,
                             Recognized(invoked[i].creator)))

C12_Witness ==
    /\ pc = "created"
    /\ invoked # <<>> /\ invoked[1].creator = "FileAppenderCreator"
    /\ DOMAIN invoked[1].config = {"path", "pattern", "encoding"}
    /\ ret[1].ok
    /\ ret[1].val.type = "FileAppender"

\* the fragments whose creation fails with error e under the current registry
Candidates(e) ==
    {g \in RawAppenders : create_appender(registry, g.kind, g.config) = Err(e)}

\* C13 as stated: the error of an Error::Creation determines the name or the
\* kind of the fragment that failed.
C13_FragmentDeterminedByError ==
    (pc = "done" /\ Extracted /\ Returned("Creation")) =>
        LET f == Raw.appenders[Len(lookups)]
            e == ret[1].err.payload IN
        \/ \A g \in Candidates(e) : g.name = f.name
        \/ \A g \in Candidates(e) : g.kind = f.kind

\* C13 amended: an Error::Creation carries the failure of the failing
\* fragment as the registry returned it and nothing more; it determines the
\* kind when the kind is unregistered, whose message contains it, and it
\* never determines the name.
C13_CreationErrorIsTheBareFailure ==
    (pc = "done" /\ Extracted /\ Returned("Creation")) =>
        LET f == Raw.appenders[Len(lookups)]
            e == ret[1].err.payload IN
        /\ e = create_appender(registry, f.kind, f.config).err
        /\ f.kind \notin RegisteredKinds =>
              /\ f.kind \in Range(e.msg)
              /\ \A g \in Candidates(e) : g.kind = f.kind
        /\ f.name \notin Range(e.msg)
        /\ \E g \in Candidates(e) : g.name # f.name

C13_Witness ==
    /\ pc = "done" /\ Extracted /\ Returned("Creation")
    /\ ret[1].err.payload = StringError(PatternMustBeString)
    /\ Raw.appenders[Len(lookups)].kind = "console"
    /\ \E g \in Candidates(ret[1].err.payload) :
          g.kind = "file" /\ g.name # Raw.appenders[Len(lookups)].name

\* C14: a registry starts empty or with exactly the kinds "file" and
\* "console" under the File and the Console creator; afterwards every change
\* of the registry is one add_appender call, made between translations, that
\* stores the given creator under the given kind and leaves every other kind
\* as it was, so that no built-in is ever put back.
C14_BuiltinsOnlyAtConstruction ==
    /\ registry \in {{}, {<<"file", "FileAppenderCreator">>,
                          <<"console", "ConsoleAppenderCreator">>}}
    /\ [][registry' # registry =>
            /\ pc = "idle" /\ pc' = "idle"
            /\ \E kind \in Kinds, creator \in Creators :
                  /\ lastAdded' = {e \in lastAdded : e[1] # kind}
                                      \cup {<<kind, creator>>}
                  /\ registry' = {e \in registry : e[1] # kind}
                                      \cup {<<kind, creator>>}]_vars

C14_Witness ==
    /\ pc = "idle"
    /\ registry = {<<"file", "FileAppenderCreator">>,
                   <<"console", "NullAppenderCreator">>,
                   <<"null", "ConsoleAppenderCreator">>}

C16_RefreshRateCarriedNotRead ==
    (pc = "done" /\ Extracted) =>
        LET d == Raw
            failing == {i \in 1..Len(d.appenders) :
                           ~Resolves(d.appenders[i])}
            apps == [i \in 1..Len(d.appenders) |->
                        [name |-> d.appenders[i].name,
                         appender |->
                            create_appender(registry, d.appenders[i].kind,
                                            d.appenders[i].config).val]]
            rt == IF d.root = None
                  THEN [level |-> "Debug", appenders |-> <<>>]
                  ELSE [level |-> d.root[1].level,
                        appenders |-> IF d.root[1].appenders = None
                                      THEN <<>>
                                      ELSE d.root[1].appenders[1]]
            lgs == [i \in 1..Len(d.loggers) |->
                       [name |-> d.loggers[i].name,
                        level |-> d.loggers[i].level,
                        appenders |-> IF d.loggers[i].appenders = None
                                      THEN <<>>
                                      ELSE d.loggers[i].appenders[1],
                        additive |-> IF d.loggers[i].additive = None
                                     THEN TRUE
                                     ELSE d.loggers[i].additive[1]]]
            verdict == Config_new(apps, rt, lgs) IN
        IF failing # {}
        THEN LET first == CHOOSE i \in failing :
                              \A j \in failing : i <= j IN
             ret = Some(Err([kind |-> "Creation",
                             payload |->
                                create_appender(
                                    registry, d.appenders[first].kind,
                                    d.appenders[first].config).err]))
        ELSE IF verdict.ok
        THEN ret = Some(Ok([refresh_rate |-> d.refresh_rate,
                            config |-> verdict.val]))
        ELSE ret = Some(Err([kind |-> "Config", payload |-> verdict.err]))

C16_Witness ==
    /\ pc = "done" /\ Extracted
    /\ Raw.refresh_rate = Some(30)
    /\ Len(Raw.appenders) = 1
    /\ ret[1].ok
    /\ ret[1].val.refresh_rate = Some(30)
    /\ Len(ret[1].val.config.appenders) = 1

\* C17: in a call of the File creator the build step, which opens the file,
\* is the last statement executed and comes after the `path` check, the
\* `pattern` check and, for a `pattern` given, its compilation; the call
\* reached it exactly when its outcome is the built appender or the error of
\* the build, so not when it returned a `path` or `pattern` error or a
\* compilation error.
C17_BuildAfterChecks ==
    \A i \in 1..Len(invoked) :
        invoked[i].creator = "FileAppenderCreator" =>
            LET st == invoked[i].steps
                o == Outcome(i) IN
            /\ \A k \in 1..Len(st) :
                  st[k] = "build" =>
                      /\ k = Len(st)
                      /\ \E a \in 1..(k - 1) : st[a] = "path"
                      /\ \E b \in 1..(k - 1) : st[b] = "pattern"
                      /\ "pattern" \in DOMAIN invoked[i].config =>
                            \E c \in 1..(k - 1) : st[c] = "compile"
            /\ ("build" \in Range(st)) <=>
                   (o.ok \/ o.err.type = "IoError")
            /\ (~o.ok /\ o.err.type \in {"StringError", "PatternError"}) =>
                   "build" \notin Range(st)

C17_Witness ==
    /\ pc = "created"
    /\ invoked # <<>> /\ invoked[1].creator = "FileAppenderCreator"
    /\ Get(invoked[1].config, "path") = Some(StringValue("/proc/app.log"))
    /\ Get(invoked[1].config, "pattern") = Some(StringValue("%{"))
    /\ ret[1] = Err([type |-> "PatternError", msg |-> <<"%{">>])
    /\ "build" \notin Range(invoked[1].steps)

====
